---- MODULE Spec2Model ----
(***************************************************************************)
(* feeder: delta selection (pickNewData, updateTimestamps), the concurrent *)
(* fetcher (downloadFeeds) and the run (feed) of fgeller/feeder, modelled  *)
(* from src/unnamed/part_002 (the 2.2.0 revision, lines 1044-2256).        *)
(*                                                                         *)
(* An instant (time.Time) is a natural number; After is >, Before is <.    *)
(*                                                                         *)
(* Specifications: SpecRuns and FairRuns (the runs of one feed),           *)
(* SpecSelect (one selection), Spec and FairSpec (the run over the         *)
(* sources), SpecReddit (main: readConfig, then the run), SpecDecode       *)
(* (unmarshal on a document), SpecHead (unmarshal on the links and the     *)
(* date of the feed), SpecCopy (pickNewData and resolveRelativeURLs on     *)
(* entries behind pointers) and SpecTime (parseTime and the RFC 3339       *)
(* round trip).                                                            *)
(***************************************************************************)
EXTENDS Naturals, Integers, Sequences, FiniteSets, TLC

VARIABLES
  MaxEntriesPerFeed, \* cfg.MaxEntriesPerFeed as readConfig leaves it
  ts,             \* the watermark map: feed ID -> instant (a partial function)
  succs,          \* the feeds downloadFeeds returned
  nd,             \* the result of pickNewData
  pc,             \* the position of the run
  watch,          \* history: one entry of feed "a" (entry ID 1, any Updated), followed across the runs
  watchReported,  \* history: watch was in the nd of an earlier run
  watchExcluded,  \* history: watch was newer than the watermark and cut by the limit
  watchStale,     \* history: watch was in the feed, not newer than the watermark
  cs,             \* the configured sources ([]*ConfigFeed)
  next,           \* downloadFeeds: the place of the range loop in cs
  started,        \* downloadFeeds: the goroutines started
  disabled,       \* downloadFeeds: the sources skipped as disabled
  go,             \* per source: "idle", "fetch", "sendSucc", "sendFail", "done"
  out,            \* per source: the value its goroutine sends
  body,           \* history, per source: what get returned to its goroutine
  fails,          \* the failures downloadFeeds returned
  succFrom,       \* history: the source of each element of succs
  failFrom,       \* history: the source of each element of fails
  emailed,        \* sendEmail returned nil
  tsFile,         \* the watermark map in cfg.TimestampFile
  crash,          \* where the process panicked, and on which source's value
  reddit,         \* cfg.Reddit: whether it is valid, and the bearer token held
  auth,           \* history, per source: get sent an Authorization header
  Local,          \* time.Local: the zone of the machine
  raw,            \* parseTime: the string to parse
  parsed,         \* parseTime: the result for raw
  text,           \* the parsed instant formatted as RFC 3339
  reparsed,       \* parseTime: the result for text
  byt,            \* unmarshal: the document
  decoded,        \* unmarshal: the result for byt
  heap            \* the FeedEntry values behind the pointers, by address

selVars == <<MaxEntriesPerFeed, ts, succs, nd, pc,
             watch, watchReported, watchExcluded, watchStale>>

watchVars == <<watch, watchReported, watchExcluded, watchStale>>

netVars == <<cs, next, started, disabled, go, out, body, fails,
             succFrom, failFrom, emailed, tsFile, crash>>

timeVars == <<Local, raw, parsed, text, reparsed>>

decVars == <<byt, decoded>>

extVars == <<reddit, auth, timeVars, decVars, heap>>

vars == <<selVars, netVars, extVars>>

\* ------------------------------------------------------------------ bounds
MaxTime == 3
MaxEntries == 3
MaxRunEntries == 2

\* ---------------------------------------------------------------- domains
Times == 1..MaxTime
EntryIDs == 1..MaxEntries
RunEntryIDs == 1..MaxRunEntries
FeedIDs == {"a", "b"}

\* FeedEntry: the fields pickNewData and updateTimestamps read.
FeedEntry == [ID : EntryIDs, Updated : Times]
RunEntry == [ID : RunEntryIDs, Updated : Times]

\* The entry lists a decoded document can hold: entries in any order, each
\* with its own ID.
EntryLists(k) ==
  {es \in [1..k -> RunEntry] : \A i, j \in 1..k : i # j => es[i].ID # es[j].ID}

FeedContents(n) == UNION {EntryLists(k) : k \in 0..n}

\* pickNewData and updateTimestamps never read an entry's ID, so for one
\* selection it is enough to number the entries by their place in the
\* document: every order of Updated values is still an input.
NumberedEntryLists(k) ==
  {[i \in 1..k |-> [ID |-> i, Updated |-> u[i]]] : u \in [1..k -> Times]}

FeedsOfLen(ids, k) == [ID : ids, Entries : NumberedEntryLists(k)]

\* The lists of decoded feeds of two sources with at most MaxEntries entries
\* between them; the two may carry the same feed ID. The feed IDs are only
\* compared and used as keys, and the watermark maps range over both, so the
\* first feed is given ID "a".
FeedLists ==
  {<<>>} \cup UNION {{<<f>> : f \in FeedsOfLen({"a"}, k)} : k \in 0..MaxEntries}
         \cup UNION {{<<f, g>> : f \in FeedsOfLen({"a"}, kk[1]),
                                 g \in FeedsOfLen(FeedIDs, kk[2])} :
                      kk \in {x \in (0..MaxEntries) \X (0..MaxEntries) :
                                x[1] + x[2] <= MaxEntries}}

\* Every watermark map over the feed IDs.
Watermarks == UNION {[D -> Times] : D \in SUBSET FeedIDs}

\* readConfig: a max-entries-per-feed of 0 (or absent) becomes 3.
DefaultMaxEntries == 3
ConfigLimits == {-1, 0, 1, 2}
readConfigLimit(m) == IF m = 0 THEN DefaultMaxEntries ELSE m

\* RECURSIVE declarations
RECURSIVE Keep(_, _, _, _, _, _)
RECURSIVE KeepNotBefore(_, _, _, _, _, _)
RECURSIVE PickFrom(_, _, _, _, _)
RECURSIVE PickFromKeepEmpty(_, _, _, _, _)
RECURSIVE Advance(_, _, _, _)
RECURSIVE UpdateFrom(_, _, _)
RECURSIVE RSSLinks(_, _, _, _)
RECURSIVE LinkListsOf(_)
RECURSIVE CopyEntryListsOf(_)
RECURSIVE Offset(_, _)
RECURSIVE EntriesFrom(_, _)

\* ----------------------------------------------------------- sort.Slice
\* sort.Slice is not stable: the result is some permutation of the slice in
\* which no later element is less than an earlier one.
IndexPerms(n) ==
  {p \in [1..n -> 1..n] : \A i, j \in 1..n : i # j => p[i] # p[j]}

After(x, y) == x.Updated > y.Updated
Before(x, y) == x.Updated < y.Updated

\* (mutant) the first sort orders oldest first
SortOldestFirst(s) ==
  {q \in {[i \in 1..Len(s) |-> s[p[i]]] : p \in IndexPerms(Len(s))} :
     \A i, j \in 1..Len(q) : i < j => ~Before(q[j], q[i])}

\* sort.Slice(copies, After): newest first
SortDescending(s) ==
  {q \in {[i \in 1..Len(s) |-> s[p[i]]] : p \in IndexPerms(Len(s))} :
     \A i, j \in 1..Len(q) : i < j => ~After(q[j], q[i])}

\* (mutant) the kept entries are not sorted again
NoResort(s) == {s}

\* sort.Slice(nf.Entries, Before): oldest first
SortAscending(s) ==
  {q \in {[i \in 1..Len(s) |-> s[p[i]]] : p \in IndexPerms(Len(s))} :
     \A i, j \in 1..Len(q) : i < j => ~Before(q[j], q[i])}

\* ---------------------------------------------------------- pickNewData
\* (mutant) an entry is kept when it is not before the watermark
KeepNotBefore(copies, i, kept, limitPerFeed, seen, lt) ==
  IF i > Len(copies) THEN kept
  ELSE IF ~seen \/ copies[i].Updated >= lt
       THEN LET k2 == Append(kept, copies[i])
            IN  IF Len(k2) >= limitPerFeed THEN k2
                ELSE KeepNotBefore(copies, i + 1, k2, limitPerFeed, seen, lt)
       ELSE KeepNotBefore(copies, i + 1, kept, limitPerFeed, seen, lt)

\* The walk over the descending copies: keep an entry when the feed has no
\* watermark or the entry is after it; stop when limitPerFeed are kept.
Keep(copies, i, kept, limitPerFeed, seen, lt) ==
  IF i > Len(copies) THEN kept
  ELSE IF ~seen \/ copies[i].Updated > lt
       THEN LET k2 == Append(kept, copies[i])
            IN  IF Len(k2) >= limitPerFeed THEN k2
                ELSE Keep(copies, i + 1, k2, limitPerFeed, seen, lt)
       ELSE Keep(copies, i + 1, kept, limitPerFeed, seen, lt)

\* The possible nf of one feed f (one per outcome of the two sorts).
PickFeed(f, limitPerFeed, t) ==
  LET seen == f.ID \in DOMAIN t
      lt   == IF seen THEN t[f.ID] ELSE 0
  IN  UNION { { [f EXCEPT !.Entries = asc] :
                  asc \in SortAscending(Keep(copies, 1, <<>>, limitPerFeed, seen, lt)) } :
              copies \in SortDescending(f.Entries) }

\* (mutant) a feed without a selected entry stays in the result
PickFromKeepEmpty(fs, i, result, limitPerFeed, t) ==
  IF i > Len(fs) THEN {result}
  ELSE UNION { PickFromKeepEmpty(fs, i + 1, Append(result, nf), limitPerFeed, t) :
               nf \in PickFeed(fs[i], limitPerFeed, t) }

PickFrom(fs, i, result, limitPerFeed, t) ==
  IF i > Len(fs) THEN {result}
  ELSE UNION { PickFrom(fs, i + 1,
                        IF Len(nf.Entries) > 0 THEN Append(result, nf) ELSE result,
                        limitPerFeed, t) :
               nf \in PickFeed(fs[i], limitPerFeed, t) }

\* The set of results pickNewData can return.
pickNewData(fs, limitPerFeed, t) == PickFrom(fs, 1, <<>>, limitPerFeed, t)

\* ----------------------------------------------------- updateTimestamps
SetKey(t, k, v) == [x \in DOMAIN t \cup {k} |-> IF x = k THEN v ELSE t[x]]

Advance(t, id, es, i) ==
  IF i > Len(es) THEN t
  ELSE Advance(IF es[i].Updated > t[id] THEN SetKey(t, id, es[i].Updated) ELSE t,
               id, es, i + 1)

\* (mutant) the watermark is seeded and never advanced
SeedOnly(t, f) ==
  IF f.ID \in DOMAIN t THEN t ELSE SetKey(t, f.ID, f.Entries[1].Updated)

\* (mutant) the watermark is seeded from the first entry of every feed
UpdateFeedReseed(t, f) ==
  Advance(SetKey(t, f.ID, f.Entries[1].Updated), f.ID, f.Entries, 1)

UpdateFeed(t, f) ==
  LET t0 == IF f.ID \in DOMAIN t THEN t ELSE SetKey(t, f.ID, f.Entries[1].Updated)
  IN  Advance(t0, f.ID, f.Entries, 1)

UpdateFrom(t, nd0, i) ==
  IF i > Len(nd0) THEN t ELSE UpdateFrom(UpdateFeed(t, nd0[i]), nd0, i + 1)

\* (mutant) the map is built anew from the selected feeds
updateTimestampsAnew(t, nd0) == UpdateFrom(<<>>, nd0, 1)

updateTimestamps(t, nd0) == UpdateFrom(t, nd0, 1)

\* The entries of the feeds with ID id in a list of feeds.
EntriesOf(fs, id) ==
  {fs[i].Entries[j] : <<i, j>> \in {x \in (1..Len(fs)) \X (EntryIDs \cup RunEntryIDs) :
                                      fs[x[1]].ID = id /\ x[2] <= Len(fs[x[1]].Entries)}}

\* e is newer than the watermark of feed id (or the feed has none).
IsNew(t, id, e) == id \notin DOMAIN t \/ e.Updated > t[id]

\* ------------------------------------------------------------- parseTime
\* A date string, by what the layouts of parseTime look at: its form, how the
\* day and the month are written, how the zone is written, the clock reading
\* it shows, a fractional part after the seconds, and surrounding blanks.
\* Instants count hours; a clock reading is a day and an hour of that day,
\* and a day has 24 hours.
MaxDay == 1
Days == 0..MaxDay
Hours == {0, 2}
Offsets == {-1, 0, 1}
Fracs == {0, 5}
Locals == {"UTC", "Europe/Berlin"}

NoRaw == [form |-> "none"]

RFC1123Strings ==
  [form : {"rfc1123"}, day2 : BOOLEAN, month : {"Mar", "March", "May"},
   zone : {"num", "UTC", "CET"}, off : Offsets, day : Days, hour : Hours,
   frac : Fracs, pad : BOOLEAN]

ISOStrings ==
  [form : {"iso"}, day2 : {TRUE}, month : {"03"},
   zone : {"Z", "colon", "nocolon"}, off : Offsets, day : Days, hour : Hours,
   frac : Fracs, pad : BOOLEAN]

DateStrings ==
  [form : {"date"}, day2 : {TRUE}, month : {"03"}, zone : {"none"}, off : {0},
   day : Days, hour : {0}, frac : {0}, pad : BOOLEAN]

OtherStrings ==
  [form : {"empty", "junk"}, day2 : {TRUE}, month : {"03"}, zone : {"none"},
   off : {0}, day : {0}, hour : {0}, frac : {0}, pad : BOOLEAN]

\* A string names one offset: a zone written as a name shows none, and "Z"
\* shows zero.
WellFormed(r) ==
  /\ r.zone \in {"UTC", "CET", "Z"} => r.off = 0
  /\ r.form = "empty" => ~r.pad

RawStrings ==
  {r \in RFC1123Strings \cup ISOStrings \cup DateStrings \cup OtherStrings :
     WellFormed(r)}

TrimSpace(r) == [r EXCEPT !.pad = FALSE]

\* The layouts in the order parseTime tries them.
Layouts ==
  << [form |-> "rfc1123", day |-> "02", month |-> "Jan", zone |-> "-0700", loc |-> "Local"],
     [form |-> "rfc1123", day |-> "2", month |-> "Jan", zone |-> "-0700", loc |-> "Local"],
     [form |-> "rfc1123", day |-> "02", month |-> "Jan", zone |-> "MST", loc |-> "Local"],
     [form |-> "rfc1123", day |-> "2", month |-> "Jan", zone |-> "MST", loc |-> "Local"],
     [form |-> "rfc1123", day |-> "2", month |-> "January", zone |-> "MST", loc |-> "UTC"],
     [form |-> "iso", day |-> "02", month |-> "01", zone |-> "Z07:00", loc |-> "Local"],
     [form |-> "iso", day |-> "02", month |-> "01", zone |-> "-0700", loc |-> "Local"],
     [form |-> "date", day |-> "02", month |-> "01", zone |-> "", loc |-> "Local"] >>

\* time.Parse on one layout element each: "02" wants two digits and "2" takes
\* one or two; "Jan" takes a short month name and "January" a long one ("May"
\* is both); "-0700" wants a sign and four digits; "MST" takes a zone name, or
\* a sign and a number up to 23 (so "+0000", and no other whole hour written
\* with four digits); "Z07:00" takes "Z" or a sign and hh:mm.
DayMatches(l, r) == l.day = "2" \/ r.day2

MonthMatches(l, r) ==
  CASE l.month = "Jan" -> r.month \in {"Mar", "May"}
    [] l.month = "January" -> r.month \in {"March", "May"}
    [] OTHER -> r.month = "03"

\* (mutant) the layout "Z07:00" takes a sign and hh:mm only
ZoneMatchesNoZulu(l, r) ==
  CASE l.zone = "-0700" -> r.zone \in {"num", "nocolon"}
    [] l.zone = "MST" -> r.zone \in {"UTC", "CET"} \/ (r.zone = "num" /\ r.off = 0)
    [] l.zone = "Z07:00" -> r.zone = "colon"
    [] OTHER -> r.zone = "none"

ZoneMatches(l, r) ==
  CASE l.zone = "-0700" -> r.zone \in {"num", "nocolon"}
    [] l.zone = "MST" -> r.zone \in {"UTC", "CET"} \/ (r.zone = "num" /\ r.off = 0)
    [] l.zone = "Z07:00" -> r.zone \in {"Z", "colon"}
    [] OTHER -> r.zone = "none"

Matches(l, r) ==
  /\ ~r.pad
  /\ r.form = l.form
  /\ DayMatches(l, r)
  /\ MonthMatches(l, r)
  /\ ZoneMatches(l, r)

\* The offset time.Parse gives the reading: the one written in digits; zero
\* for "Z" and "UTC"; for another zone name the offset the location knows for
\* it, and zero in a made-up zone when the location does not know the name.
ZoneOffset(l, r, local) ==
  CASE r.zone \in {"num", "colon", "nocolon"} /\ l.zone # "MST" -> r.off
    [] r.zone = "CET" /\ l.loc = "Local" /\ local = "Europe/Berlin" -> 1
    [] OTHER -> 0

NoTime == [ok |-> FALSE, sec |-> 0, off |-> 0, frac |-> 0]

\* The time value: the instant (whole hours and the fractional part), and the
\* offset of the zone it is shown in.
ParseIn(l, r, local) ==
  [ok |-> TRUE,
   sec |-> 24 * r.day + r.hour - ZoneOffset(l, r, local),
   off |-> ZoneOffset(l, r, local),
   frac |-> r.frac]

FirstMatch(r) ==
  IF \E k \in 1..Len(Layouts) : Matches(Layouts[k], r)
  THEN CHOOSE k \in 1..Len(Layouts) :
         /\ Matches(Layouts[k], r)
         /\ \A j \in 1..(k - 1) : ~Matches(Layouts[j], r)
  ELSE 0

parseTime(r, local) ==
  LET s == TrimSpace(r)
      k == FirstMatch(s)
  IN IF k = 0 THEN NoTime ELSE ParseIn(Layouts[k], s, local)

\* t.Format(time.RFC3339): the reading in t's zone, no fractional part, and
\* the offset as "Z" when it is zero and as a sign and hh:mm otherwise.
FormatRFC3339(t) ==
  [form |-> "iso", day2 |-> TRUE, month |-> "03",
   zone |-> IF t.off = 0 THEN "Z" ELSE "colon", off |-> t.off,
   day |-> (t.sec + t.off) \div 24, hour |-> (t.sec + t.off) % 24,
   frac |-> 0, pad |-> FALSE]

\* t.Equal(u): the same instant, whatever the zones.
SameInstant(t, u) == t.sec = u.sec /\ t.frac = u.frac

TimeIdle ==
  /\ Local = "UTC"
  /\ raw = NoRaw
  /\ parsed = NoTime
  /\ text = NoRaw
  /\ reparsed = NoTime

\* ------------------------------------------------ documents and decoding
\* What the decoders read of a response body: the name of the root element
\* ("none": the body ends before a start tag is complete), whether the body
\* is cut off before the root element is closed, the id element (Atom), the
\* hrefs of the link elements (feed>link, channel>link), whether there is a
\* channel element (RDF), and the items. An item shows its id, the string of
\* its date element (NoRaw when it has none), and its media group: "none",
\* or "thumbnail" for a group with a thumbnail and no content element in an
\* entry that has no content of its own.
Dialects == {"feed", "rss", "RDF"}

NoLinks == <<>>

\* A link element: its text, and its href, rel and type attributes ("" for
\* an attribute the element does not have).
LinkElement(txt, href, rel, type) ==
  [text |-> txt, href |-> href, rel |-> rel, type |-> type]

\* <link>h</link>, and <link href="h" rel="..." type="..."/>
TextLink(h) == LinkElement(h, "", "", "")
AttrLink(h, rel, type) == LinkElement("", h, rel, type)

\* A document without a feed-level date; Dated gives it one (lastBuildDate,
\* updated, or the date of the channel).
Doc(root, cut, id, links, channel, entries) ==
  [root |-> root, cut |-> cut, id |-> id, links |-> links,
   channel |-> channel, entries |-> entries, date |-> [form |-> "none"]]

Dated(doc, d) == [doc EXCEPT !.date = d]

EmptyDoc == Doc("none", FALSE, "", NoLinks, FALSE, <<>>)

Item(id, date, media) == [ID |-> id, date |-> date, media |-> media]

\* Date strings of items: an RFC 3339 string for hour h, an element without
\* text, and text that is no date.
Stamp(h) ==
  [form |-> "iso", day2 |-> TRUE, month |-> "03", zone |-> "Z", off |-> 0,
   day |-> 0, hour |-> h, frac |-> 0, pad |-> FALSE]

EmptyDate ==
  [form |-> "empty", day2 |-> TRUE, month |-> "03", zone |-> "none", off |-> 0,
   day |-> 0, hour |-> 0, frac |-> 0, pad |-> FALSE]

JunkDate == [EmptyDate EXCEPT !.form = "junk"]

OneEntry == <<Item(1, Stamp(2), "none")>>

DocEntries == {<<>>, OneEntry}

\* Whole documents of the three dialects around the URL h: with a link, and
\* without one.
WholeDocs(h) ==
     {Doc("feed", FALSE, h, <<AttrLink(h, "", "")>>, FALSE, es) : es \in DocEntries}
  \cup {Doc(d, FALSE, "", <<TextLink(h)>>, d = "RDF", OneEntry) :
          d \in {"rss", "RDF"}}
  \cup {Doc("feed", FALSE, h, NoLinks, FALSE, OneEntry)}
  \cup {Doc(d, FALSE, "", NoLinks, d = "RDF", OneEntry) :
          d \in {"rss", "RDF"}}

\* Bodies that are no whole feed document: cut off inside the root element
\* of a dialect, cut off inside the first start tag, empty, a whole document
\* of another kind, an RDF document without a channel element, and an Atom
\* document whose entry has a thumbnail and no media content.
BrokenDocs ==
     {Doc(d, TRUE, "", NoLinks, FALSE, <<>>) : d \in Dialects \cup {"none"}}
  \cup {EmptyDoc, Doc("html", FALSE, "", NoLinks, FALSE, <<>>)}
  \cup {Doc("RDF", FALSE, "", NoLinks, FALSE, OneEntry)}
  \cup {Doc("feed", FALSE, "a", <<AttrLink("a", "", "")>>, FALSE,
            <<Item(1, Stamp(2), "thumbnail")>>)}

\* The documents unmarshal is checked on: every root, whole or cut off before
\* the first item, with and without id, link and channel, and up to MaxItems
\* items with every kind of date and media group.
MaxItems == 2

ItemDates == {NoRaw, EmptyDate, JunkDate, Stamp(1), Stamp(2)}

ItemLists ==
  UNION {{es \in [1..k -> [ID : 1..MaxItems, date : ItemDates,
                           media : {"none", "thumbnail"}]] :
            \A j \in 1..k : es[j].ID = j} : k \in 0..MaxItems}

Documents ==
  {doc \in [root : Dialects \cup {"html", "none"}, cut : BOOLEAN,
            id : {"", "a"}, links : {NoLinks, <<TextLink("a")>>}, channel : BOOLEAN,
            entries : ItemLists, date : {NoRaw}] :
     /\ doc.cut => doc.entries = <<>>
     /\ doc.root = "none" =>
          doc.id = "" /\ doc.links = NoLinks /\ ~doc.channel /\ doc.entries = <<>>}

\* What get can return for source i: an error, or the body of a response. The first source
\* serves feed "a", the others "a" or "b".
\* The status of the response is 200 unless said otherwise.
StatusReply(status, doc) == [err |-> FALSE, status |-> status, doc |-> doc]

Reply(err, doc) == [err |-> err, status |-> 200, doc |-> doc]

\* Responses with an error status: not found, with a page and with an empty
\* body, and unavailable, with a feed in the body.
ErrorReplies ==
  {StatusReply(404, Doc("html", FALSE, "", NoLinks, FALSE, <<>>)),
   StatusReply(404, EmptyDoc),
   StatusReply(503, Doc("feed", FALSE, "a", <<AttrLink("a", "", "")>>, FALSE, OneEntry))}

NoReply == Reply(FALSE, EmptyDoc)

Replies(i) ==
  {Reply(TRUE, EmptyDoc)}
  \cup ErrorReplies
  \cup {Reply(FALSE, d) :
          d \in BrokenDocs \cup UNION {WholeDocs(h) :
                  h \in IF i = 1 THEN {"a"} ELSE FeedIDs}}

\* A nil *Feed.
NilFeed == [nil |-> TRUE]

IsNil(f) == "nil" \in DOMAIN f

\* The result of a call: the feed, the error ("" is nil), or a panic.
Result(feed, err, panic) == [feed |-> feed, err |-> err, panic |-> panic]

\* time.Time{}: before every instant a date string can show.
ZeroTime == 0

\* url.ParseRequestURI(s) has no error.
IsRequestURI(s) == s \notin {"", "junk"}

\* (l *Link) UnmarshalXML: the Link it leaves. With a URI as the text of the
\* element it returns before the attributes are read.
LinkUnmarshalXML(el) ==
  IF IsRequestURI(el.text)
  THEN [HRef |-> el.text, Rel |-> "", Type |-> ""]
  ELSE [HRef |-> el.href, Rel |-> el.rel, Type |-> el.type]

\* (l *Link) UnmarshalXML: its error ("" is nil).
LinkErr(el) ==
  IF IsRequestURI(el.text) THEN ""
  ELSE IF el.href = "" THEN "found no href content in link element"
  ELSE IF ~IsRequestURI(el.href) THEN "could not parse link's href"
  ELSE ""

\* The Links field of AtomFeed and RSSFeed after the decode.
Links(doc) == [k \in 1..Len(doc.links) |-> LinkUnmarshalXML(doc.links[k])]

\* The error of the first link element that does not decode ("": none).
LinksErr(doc) ==
  IF \E k \in 1..Len(doc.links) : LinkErr(doc.links[k]) # ""
  THEN LinkErr(doc.links[CHOOSE k \in 1..Len(doc.links) :
                           /\ LinkErr(doc.links[k]) # ""
                           /\ \A j \in 1..(k - 1) : LinkErr(doc.links[j]) = ""])
  ELSE ""

\* (mutant) the date element of the feed is never refused
FeedTimeErrNever(doc, d) == FALSE

\* (t *xmlTime) UnmarshalXML fails on the date element of the feed (of the
\* channel, in RDF).
FeedTimeErr(doc, d) ==
  /\ doc.date # NoRaw
  /\ d = "RDF" => doc.channel
  /\ ~parseTime(doc.date, Local).ok

\* (t *xmlTime) UnmarshalXML fails on a date element of an Atom or RDF item.
TimeErr(doc) ==
  \E k \in 1..Len(doc.entries) :
    /\ doc.entries[k].date # NoRaw
    /\ ~parseTime(doc.entries[k].date, Local).ok

\* decoder.Decode into the struct of dialect d: the error of encoding/xml
\* ("" is nil). The root name is compared before the content is read. The
\* link elements of Atom and RSS 2.0 and the date elements of Atom and RDF
\* are decoded by their UnmarshalXML; lastBuildDate and pubDate are strings,
\* and so is the link of an RDF channel. Links and the feed-level date come
\* before the place a document is cut off at, the items after it.
DecodeErr(doc, d) ==
  IF doc.root = "none" THEN (IF doc.cut THEN "XML syntax error: unexpected EOF" ELSE "EOF")
  ELSE IF doc.root # d
    THEN "expected element type <" \o d \o "> but have <" \o doc.root \o ">"
  ELSE IF d # "RDF" /\ LinksErr(doc) # "" THEN LinksErr(doc)
  ELSE IF d # "rss" /\ FeedTimeErr(doc, d) THEN "failed to parse time string"
  ELSE IF doc.cut THEN "XML syntax error: unexpected EOF"
  ELSE IF d # "rss" /\ TimeErr(doc) THEN "failed to parse time string"
  ELSE ""

\* strings.Contains(rdfErr.Error(), "unexpected EOF")
ContainsUnexpectedEOF(e) == e = "XML syntax error: unexpected EOF"

\* The FeedEntry of an item whose date field is the time t.
Entry(e, t) == [ID |-> e.ID, Updated |-> t]

\* The value of an xmlTime field: the zero time without a date element.
XMLTime(d) == IF d = NoRaw THEN ZeroTime ELSE parseTime(d, Local).sec

\* (mutant) an empty pubDate element counts as a pubDate
HasPubDateElement(e) == e.date # NoRaw

\* The items of an RSS document with a pubDate: e.PubDate != "".
HasPubDate(e) == e.date # NoRaw /\ e.date.form # "empty"

RSSEntries(doc) ==
  LET dated == SelectSeq(doc.entries, HasPubDate)
  IN  [k \in 1..Len(dated) |-> Entry(dated[k], parseTime(dated[k].date, Local).sec)]

PubDateErr(doc) ==
  \E k \in 1..Len(doc.entries) :
    HasPubDate(doc.entries[k]) /\ ~parseTime(doc.entries[k].date, Local).ok

XMLEntries(doc) ==
  [k \in 1..Len(doc.entries) |-> Entry(doc.entries[k], XMLTime(doc.entries[k].date))]

\* f.LastBuildDate != "", and its parse error.
HasLastBuildDate(doc) == doc.date # NoRaw /\ doc.date.form # "empty"

LastBuildDateErr(doc) == HasLastBuildDate(doc) /\ ~parseTime(doc.date, Local).ok

\* The walk of (f *RSSFeed) Feed() over f.Links from place i on, with the
\* links id and lk chosen so far.
RSSLinks(ls, i, id, lk) ==
  IF i > Len(ls) THEN [id |-> id, lk |-> lk]
  ELSE IF ls[i].Type = "text/html" \/ ls[i].Rel = "alternate"
       THEN RSSLinks(ls, i + 1, id, ls[i])
  ELSE IF ls[i].Rel = "self" THEN RSSLinks(ls, i + 1, ls[i], lk)
  ELSE RSSLinks(ls, i + 1, id, lk)

\* The feed (f *RSSFeed) Feed() builds of a document with a link and with
\* dates that parse.
RSSFeedOf(doc) ==
  LET chosen == RSSLinks(Links(doc), 1, Links(doc)[1], Links(doc)[1])
  IN  [ID |-> chosen.id.HRef, Link |-> chosen.lk.HRef,
       Updated |-> IF HasLastBuildDate(doc) THEN parseTime(doc.date, Local).sec
                   ELSE ZeroTime,
       Entries |-> RSSEntries(doc)]

\* (mutant) an RSS feed without a link becomes a feed without ID and Link
RSSFeedFeedNoCheck(doc) ==
  IF LastBuildDateErr(doc) THEN Result(NilFeed, "lastBuildDate parse error", FALSE)
  ELSE IF PubDateErr(doc) THEN Result(NilFeed, "pubDate parse error", FALSE)
  ELSE IF Len(doc.links) = 0
       THEN Result([ID |-> "", Link |-> "", Updated |-> ZeroTime,
                    Entries |-> RSSEntries(doc)], "", FALSE)
  ELSE Result(RSSFeedOf(doc), "", FALSE)

\* (f *RSSFeed) Feed()
RSSFeedFeed(doc) ==
  IF Len(doc.links) = 0 THEN Result(NilFeed, "missing link", FALSE)
  ELSE IF LastBuildDateErr(doc) THEN Result(NilFeed, "lastBuildDate parse error", FALSE)
  ELSE IF PubDateErr(doc) THEN Result(NilFeed, "pubDate parse error", FALSE)
  ELSE Result(RSSFeedOf(doc), "", FALSE)

\* The link of an RDF channel: the text of its link element (of the last
\* one, when there are several), "" without one.
ChannelLink(doc) ==
  IF Len(doc.links) = 0 THEN "" ELSE doc.links[Len(doc.links)].text

\* (f *RDFFeed) Feed(): f.Channel is nil when the document has no channel.
RDFFeedFeed(doc) ==
  IF ~doc.channel THEN Result(NilFeed, "", TRUE)
  ELSE Result([ID |-> ChannelLink(doc), Link |-> ChannelLink(doc),
               Updated |-> XMLTime(doc.date), Entries |-> XMLEntries(doc)], "", FALSE)

\* (mg *MediaGroup) HTML() reads mg.Content.URL: mg.Content is nil when the
\* group has a thumbnail and no content element.
MediaPanics(doc) ==
  \E k \in 1..Len(doc.entries) : doc.entries[k].media = "thumbnail"

\* The href of the first link whose rel is not "self" ("": there is none).
FirstNotSelf(ls) ==
  IF \E k \in 1..Len(ls) : ls[k].Rel # "self"
  THEN ls[CHOOSE k \in 1..Len(ls) :
            ls[k].Rel # "self" /\ \A j \in 1..(k - 1) : ls[j].Rel = "self"].HRef
  ELSE ""

\* (mutant) the ID is the href of the first link that is not "self", and the
\* id element without such a link
AtomFeedFeedLinkID(doc) ==
  IF MediaPanics(doc) THEN Result(NilFeed, "", TRUE)
  ELSE Result([ID |-> IF FirstNotSelf(Links(doc)) # "" THEN FirstNotSelf(Links(doc))
                      ELSE doc.id,
               Link |-> FirstNotSelf(Links(doc)),
               Updated |-> XMLTime(doc.date),
               Entries |-> XMLEntries(doc)], "", FALSE)

\* (f *AtomFeed) Feed()
AtomFeedFeed(doc) ==
  IF MediaPanics(doc) THEN Result(NilFeed, "", TRUE)
  ELSE Result([ID |-> doc.id,
               Link |-> FirstNotSelf(Links(doc)),
               Updated |-> XMLTime(doc.date),
               Entries |-> XMLEntries(doc)], "", FALSE)

\* (mutant) unmarshal returns the error of the first attempt
unmarshalFirstError(doc) ==
  LET atomErr == DecodeErr(doc, "feed")
      rssErr  == DecodeErr(doc, "rss")
      rdfErr  == DecodeErr(doc, "RDF")
  IN  IF atomErr = "" THEN AtomFeedFeed(doc)
      ELSE IF rssErr = "" THEN RSSFeedFeed(doc)
      ELSE IF rdfErr = "" THEN RDFFeedFeed(doc)
      ELSE IF ContainsUnexpectedEOF(rdfErr) THEN Result(NilFeed, "", FALSE)
      ELSE Result(NilFeed, atomErr, FALSE)

\* (mutant) unmarshal without the RSS attempt
unmarshalNoRSS(doc) ==
  LET atomErr == DecodeErr(doc, "feed")
      rdfErr  == DecodeErr(doc, "RDF")
  IN  IF atomErr = "" THEN AtomFeedFeed(doc)
      ELSE IF rdfErr = "" THEN RDFFeedFeed(doc)
      ELSE IF ContainsUnexpectedEOF(rdfErr) THEN Result(NilFeed, "", FALSE)
      ELSE Result(NilFeed, rdfErr, FALSE)

unmarshal(doc) ==
  LET atomErr == DecodeErr(doc, "feed")
      rssErr  == DecodeErr(doc, "rss")
      rdfErr  == DecodeErr(doc, "RDF")
  IN  IF atomErr = "" THEN AtomFeedFeed(doc)
      ELSE IF rssErr = "" THEN RSSFeedFeed(doc)
      ELSE IF rdfErr = "" THEN RDFFeedFeed(doc)
      ELSE IF ContainsUnexpectedEOF(rdfErr) THEN Result(NilFeed, "", FALSE)
      ELSE Result(NilFeed, rdfErr, FALSE)

\* The decoders unmarshal runs on the document, in the order it runs them.
Attempts(doc) ==
  IF DecodeErr(doc, "feed") = "" THEN <<"feed">>
  ELSE IF DecodeErr(doc, "rss") = "" THEN <<"feed", "rss">>
  ELSE <<"feed", "rss", "RDF">>

downloadFeed(reply) ==
  IF reply.err THEN Result(NilFeed, "failed to request", FALSE)
  ELSE unmarshal(reply.doc)

\* ------------------------------------------------------------- sources
MaxSources == 2

Name(i) == <<"name", i>>
URL(i) == <<"url", i>>
RedditURL(i) == <<"reddit", i>>

\* rxReddit.MatchString(url)
MatchesReddit(url) == url[1] = "reddit"

\* get adds the Authorization header to the request for url.
Authorization(cfg, url) == cfg.bearerToken # "" /\ MatchesReddit(url)

\* Sources with a Reddit URL, with another URL, and with one of each.
RedditConfigLists ==
  {<<[Name |-> Name(1), URL |-> RedditURL(1), Disabled |-> FALSE]>>,
   <<[Name |-> Name(1), URL |-> URL(1), Disabled |-> FALSE]>>,
   <<[Name |-> Name(1), URL |-> RedditURL(1), Disabled |-> FALSE],
     [Name |-> Name(2), URL |-> URL(2), Disabled |-> FALSE]>>}

\* cfg.Reddit as the file gives it: without credentials, or with them.
RedditConfigs == {[valid |-> FALSE, bearerToken |-> ""], [valid |-> TRUE, bearerToken |-> ""]}

\* What getRedditBearerToken can return: a token; an empty token, from an
\* answer in JSON without access_token; an error, when the request fails or
\* the answer is no JSON.
TokenReplies ==
  {[tok |-> "token", err |-> FALSE], [tok |-> "", err |-> FALSE],
   [tok |-> "", err |-> TRUE]}

ConfigLists ==
  UNION {{[i \in 1..n |-> [Name |-> Name(i), URL |-> URL(i), Disabled |-> dis[i]]] :
            dis \in [1..n -> BOOLEAN]} : n \in 0..MaxSources}

\* The watermark maps readTimestamps finds in the file.
StoredWatermarks == {<<>>, [x \in {"a"} |-> 2]}

NoCrash == [in |-> "", by |-> 0]

\* No source is configured and nothing is fetched.
NoSources ==
  /\ cs = <<>>
  /\ next = 1
  /\ started = 0
  /\ disabled = 0
  /\ go = <<>>
  /\ out = <<>>
  /\ body = <<>>
  /\ fails = <<>>
  /\ succFrom = <<>>
  /\ failFrom = <<>>
  /\ emailed = FALSE
  /\ tsFile = <<>>
  /\ crash = NoCrash

\* cfg.Reddit without client id and secret: no token is asked for.
NoReddit == [valid |-> FALSE, bearerToken |-> ""]

DecodeIdle ==
  /\ byt = EmptyDoc
  /\ decoded = Result(NilFeed, "", FALSE)

\* No FeedEntry is allocated: the entries of the feeds are values.
HeapIdle == heap = <<>>

\* Nothing is configured for Reddit, and no string or document is under way.
ExtIdle ==
  /\ reddit = NoReddit
  /\ auth = <<>>
  /\ TimeIdle
  /\ DecodeIdle
  /\ HeapIdle

\* ================================================================ actions
\* downloadFeeds returned: the decoded feed of one source (feed "a").
Downloaded ==
  /\ pc = "download"
  /\ \E es \in FeedContents(MaxRunEntries) : succs' = <<[ID |-> "a", Entries |-> es]>>
  /\ pc' = "pick"
  /\ UNCHANGED <<MaxEntriesPerFeed, ts, nd, watch, watchReported, watchExcluded, watchStale>>
  /\ UNCHANGED netVars
  /\ UNCHANGED extVars

\* nd = pickNewData(succs, cfg.MaxEntriesPerFeed, ts)
PickNewData ==
  /\ pc = "pick"
  /\ nd' \in pickNewData(succs, MaxEntriesPerFeed, ts)
  /\ pc' = "update"
  /\ UNCHANGED <<MaxEntriesPerFeed, ts, succs, watch, watchReported, watchExcluded, watchStale>>
  /\ UNCHANGED netVars
  /\ UNCHANGED extVars

\* updateTimestamps(ts, nd)
UpdateTimestamps ==
  /\ pc = "update"
  /\ ts' = updateTimestamps(ts, nd)
  /\ watchReported' = (watchReported \/ watch \in EntriesOf(nd, "a"))
  /\ watchExcluded' = (watchExcluded \/ (/\ watch \in EntriesOf(succs, "a")
                                          /\ IsNew(ts, "a", watch)
                                          /\ watch \notin EntriesOf(nd, "a")))
  /\ watchStale' = (watchStale \/ (/\ watch \in EntriesOf(succs, "a")
                                    /\ ~IsNew(ts, "a", watch)))
  /\ pc' = "end"
  /\ UNCHANGED <<MaxEntriesPerFeed, succs, nd, watch>>
  /\ UNCHANGED netVars
  /\ UNCHANGED extVars

\* feed returns and the process ends: succs and nd are locals of feed; the
\* watermark map is what the next run starts from.
EndRun ==
  /\ pc = "end"
  /\ succs' = <<>>
  /\ nd' = <<>>
  /\ pc' = "download"
  /\ UNCHANGED <<MaxEntriesPerFeed, ts, watch, watchReported, watchExcluded, watchStale>>
  /\ UNCHANGED netVars
  /\ UNCHANGED extVars

\* ---- the runs of one feed: download, pick, update, again ----
InitRuns ==
  /\ MaxEntriesPerFeed \in {readConfigLimit(m) : m \in ConfigLimits}
  /\ ts = <<>>
  /\ succs = <<>>
  /\ nd = <<>>
  /\ pc = "download"
  /\ watch \in {e \in RunEntry : e.ID = 1}
  /\ watchReported = FALSE
  /\ watchExcluded = FALSE
  /\ watchStale = FALSE
  /\ NoSources
  /\ ExtIdle

NextRuns == Downloaded \/ PickNewData \/ UpdateTimestamps \/ EndRun

SpecRuns == InitRuns /\ [][NextRuns]_vars

FairRuns == SpecRuns /\ WF_vars(NextRuns)

\* ---- one selection over every list of feeds, watermark map and limit ----
InitSelect ==
  /\ MaxEntriesPerFeed \in {readConfigLimit(m) : m \in ConfigLimits}
  /\ ts \in Watermarks
  /\ succs \in FeedLists
  /\ nd = <<>>
  /\ pc = "pick"
  /\ watch = [ID |-> 1, Updated |-> 1]
  /\ watchReported = FALSE
  /\ watchExcluded = FALSE
  /\ watchStale = FALSE
  /\ NoSources
  /\ ExtIdle

NextSelect == PickNewData \/ UpdateTimestamps

SpecSelect == InitSelect /\ [][NextSelect]_vars

\* ---- the run of feed over the configured sources ------------------------
\* (mutant) the range loop starts a goroutine for every source
DispatchAll ==
  /\ pc = "download"
  /\ next <= Len(cs)
  /\ go' = [go EXCEPT ![next] = "fetch"]
  /\ started' = started + 1
  /\ next' = next + 1
  /\ UNCHANGED <<selVars, cs, disabled, out, body, fails, succFrom, failFrom, emailed, tsFile, crash>>
  /\ UNCHANGED extVars

\* downloadFeeds, the range loop over cs: a disabled source is counted and
\* skipped, for every other source a goroutine is started.
Dispatch ==
  /\ pc = "download"
  /\ next <= Len(cs)
  /\ IF cs[next].Disabled
       THEN /\ disabled' = disabled + 1
            /\ UNCHANGED <<started, go>>
       ELSE /\ go' = [go EXCEPT ![next] = "fetch"]
            /\ started' = started + 1
            /\ UNCHANGED disabled
  /\ next' = next + 1
  /\ UNCHANGED <<selVars, cs, out, body, fails, succFrom, failFrom, emailed, tsFile, crash>>
  /\ UNCHANGED extVars

\* The goroutine of source i: downloadFeed returns and the goroutine is at
\* its send on fail or on succ; a panic inside downloadFeed ends the process.
DownloadFeed(i) ==
  /\ pc = "download"
  /\ i \in 1..Len(cs)
  /\ go[i] = "fetch"
  /\ \E r \in Replies(i) :
       LET res == downloadFeed(r)
       IN  /\ body' = [body EXCEPT ![i] = r]
           /\ IF res.panic
                THEN /\ pc' = "panic"
                     /\ crash' = [in |-> "downloadFeed", by |-> i]
                     /\ UNCHANGED <<go, out>>
                ELSE /\ IF res.err # ""
                          THEN /\ go' = [go EXCEPT ![i] = "sendFail"]
                               /\ out' = [out EXCEPT ![i] =
                                            [Title |-> cs[i].Name, Link |-> cs[i].URL,
                                             Failure |-> res.err]]
                          ELSE /\ go' = [go EXCEPT ![i] = "sendSucc"]
                               /\ out' = [out EXCEPT ![i] = res.feed]
                     /\ UNCHANGED <<pc, crash>>
  /\ UNCHANGED <<MaxEntriesPerFeed, ts, succs, nd, watchVars>>
  /\ auth' = [auth EXCEPT ![i] = Authorization(reddit, cs[i].URL)]
  /\ UNCHANGED <<cs, next, started, disabled, fails, succFrom, failFrom, emailed, tsFile>>
  /\ UNCHANGED <<reddit, timeVars, decVars, heap>>

\* downloadFeeds, the select of the collecting loop: the send of one waiting
\* goroutine and the receive happen together (the channels have no buffer).
Receive(i) ==
  /\ pc = "download"
  /\ next > Len(cs)
  /\ started # Len(succs) + Len(fails)
  /\ i \in 1..Len(cs)
  /\ go[i] \in {"sendSucc", "sendFail"}
  /\ IF go[i] = "sendSucc"
       THEN /\ succs' = Append(succs, out[i])
            /\ succFrom' = Append(succFrom, i)
            /\ UNCHANGED <<fails, failFrom>>
       ELSE /\ fails' = Append(fails, out[i])
            /\ failFrom' = Append(failFrom, i)
            /\ UNCHANGED <<succs, succFrom>>
  /\ go' = [go EXCEPT ![i] = "done"]
  /\ UNCHANGED <<MaxEntriesPerFeed, ts, nd, pc, watchVars>>
  /\ UNCHANGED <<cs, next, started, disabled, out, body, emailed, tsFile, crash>>
  /\ UNCHANGED extVars

\* downloadFeeds returns when every started goroutine has reported.
Return ==
  /\ pc = "download"
  /\ next > Len(cs)
  /\ started = Len(succs) + Len(fails)
  /\ pc' = "pick"
  /\ UNCHANGED <<MaxEntriesPerFeed, ts, succs, nd, watchVars, netVars>>
  /\ UNCHANGED extVars

\* The first place of a nil feed in fs (0: none).
FirstNil(fs) ==
  IF \E k \in 1..Len(fs) : IsNil(fs[k])
  THEN CHOOSE k \in 1..Len(fs) : IsNil(fs[k]) /\ \A j \in 1..(k - 1) : ~IsNil(fs[j])
  ELSE 0

\* (mutant) feed goes on to the email also with nothing new and no failure
PickThenEmail ==
  /\ pc = "pick"
  /\ IF FirstNil(succs) # 0
       THEN /\ pc' = "panic"
            /\ crash' = [in |-> "pickNewData", by |-> succFrom[FirstNil(succs)]]
            /\ UNCHANGED nd
       ELSE /\ nd' \in pickNewData(succs, MaxEntriesPerFeed, ts)
            /\ pc' = "email"
            /\ UNCHANGED crash
  /\ UNCHANGED <<MaxEntriesPerFeed, ts, succs, watchVars>>
  /\ UNCHANGED <<cs, next, started, disabled, go, out, body, fails,
                 succFrom, failFrom, emailed, tsFile>>
  /\ UNCHANGED extVars

\* feed: nd = pickNewData(succs, ...); pickNewData reads f.Entries of every
\* feed, so a nil feed in succs is a panic. With nothing new and no failure
\* feed returns.
Pick ==
  /\ pc = "pick"
  /\ IF FirstNil(succs) # 0
       THEN /\ pc' = "panic"
            /\ crash' = [in |-> "pickNewData", by |-> succFrom[FirstNil(succs)]]
            /\ UNCHANGED nd
       ELSE /\ nd' \in pickNewData(succs, MaxEntriesPerFeed, ts)
            /\ pc' = IF Len(nd') = 0 /\ Len(fails) = 0 THEN "done" ELSE "email"
            /\ UNCHANGED crash
  /\ UNCHANGED <<MaxEntriesPerFeed, ts, succs, watchVars>>
  /\ UNCHANGED <<cs, next, started, disabled, go, out, body, fails,
                 succFrom, failFrom, emailed, tsFile>>
  /\ UNCHANGED extVars

\* feed: makeEmailBody and sendEmail succeed.
SendEmail ==
  /\ pc = "email"
  /\ emailed' = TRUE
  /\ pc' = "update"
  /\ UNCHANGED <<MaxEntriesPerFeed, ts, succs, nd, watchVars>>
  /\ UNCHANGED <<cs, next, started, disabled, go, out, body, fails,
                 succFrom, failFrom, tsFile, crash>>
  /\ UNCHANGED extVars

\* (mutant) the timestamps are updated and written before the email is sent
SendEmailFailsAfterWrite ==
  /\ pc = "email"
  /\ pc' = "fatal"
  /\ ts' = updateTimestamps(ts, nd)
  /\ tsFile' = ts'
  /\ UNCHANGED <<MaxEntriesPerFeed, succs, nd, watchVars>>
  /\ UNCHANGED <<cs, next, started, disabled, go, out, body, fails,
                 succFrom, failFrom, emailed, crash>>
  /\ UNCHANGED extVars

\* feed: makeEmailBody or sendEmail fails, failOnErr ends the process.
SendEmailFails ==
  /\ pc = "email"
  /\ pc' = "fatal"
  /\ UNCHANGED <<MaxEntriesPerFeed, ts, succs, nd, watchVars, netVars>>
  /\ UNCHANGED extVars

\* feed: updateTimestamps(ts, nd)
Update ==
  /\ pc = "update"
  /\ ts' = updateTimestamps(ts, nd)
  /\ pc' = "write"
  /\ UNCHANGED <<MaxEntriesPerFeed, succs, nd, watchVars, netVars>>
  /\ UNCHANGED extVars

\* feed: writeTimestamps succeeds.
WriteTimestamps ==
  /\ pc = "write"
  /\ tsFile' = ts
  /\ pc' = "done"
  /\ UNCHANGED <<MaxEntriesPerFeed, ts, succs, nd, watchVars>>
  /\ UNCHANGED <<cs, next, started, disabled, go, out, body, fails,
                 succFrom, failFrom, emailed, crash>>
  /\ UNCHANGED extVars

\* feed: writeTimestamps fails, failOnErr ends the process.
WriteTimestampsFails ==
  /\ pc = "write"
  /\ pc' = "fatal"
  /\ UNCHANGED <<MaxEntriesPerFeed, ts, succs, nd, watchVars, netVars>>
  /\ UNCHANGED extVars

Init ==
  /\ MaxEntriesPerFeed = readConfigLimit(0)
  /\ tsFile \in StoredWatermarks
  /\ ts = tsFile
  /\ succs = <<>>
  /\ nd = <<>>
  /\ pc = "download"
  /\ watch = [ID |-> 1, Updated |-> 1]
  /\ watchReported = FALSE
  /\ watchExcluded = FALSE
  /\ watchStale = FALSE
  /\ cs \in ConfigLists
  /\ next = 1
  /\ started = 0
  /\ disabled = 0
  /\ go = [i \in 1..Len(cs) |-> "idle"]
  /\ out = [i \in 1..Len(cs) |-> NilFeed]
  /\ body = [i \in 1..Len(cs) |-> NoReply]
  /\ fails = <<>>
  /\ succFrom = <<>>
  /\ failFrom = <<>>
  /\ emailed = FALSE
  /\ crash = NoCrash
  /\ reddit = NoReddit
  /\ auth = [i \in 1..Len(cs) |-> FALSE]
  /\ TimeIdle
  /\ DecodeIdle
  /\ HeapIdle

Next ==
  \/ Dispatch
  \/ \E i \in 1..MaxSources : DownloadFeed(i)
  \/ \E i \in 1..MaxSources : Receive(i)
  \/ Return
  \/ Pick
  \/ SendEmail
  \/ SendEmailFails
  \/ Update
  \/ WriteTimestamps
  \/ WriteTimestampsFails

Spec == Init /\ [][Next]_vars

\* Every goroutine that can take a step takes one (get has a timeout of 30
\* seconds, so every fetch ends), and so does the main goroutine.
FairSpec ==
  /\ Spec
  /\ \A i \in 1..MaxSources : WF_vars(DownloadFeed(i)) /\ WF_vars(Receive(i))
  /\ WF_vars(Dispatch \/ Return \/ Pick \/ SendEmail \/ SendEmailFails
             \/ Update \/ WriteTimestamps \/ WriteTimestampsFails)

\* ---- parseTime on a string, and again on its result as RFC 3339 ----------
ParseTime ==
  /\ pc = "parse"
  /\ parsed' = parseTime(raw, Local)
  /\ pc' = IF parsed'.ok THEN "format" ELSE "end"
  /\ UNCHANGED <<MaxEntriesPerFeed, ts, succs, nd, watchVars>>
  /\ UNCHANGED netVars
  /\ UNCHANGED <<reddit, auth, Local, raw, text, reparsed, decVars, heap>>

Format ==
  /\ pc = "format"
  /\ text' = FormatRFC3339(parsed)
  /\ pc' = "reparse"
  /\ UNCHANGED <<MaxEntriesPerFeed, ts, succs, nd, watchVars>>
  /\ UNCHANGED netVars
  /\ UNCHANGED <<reddit, auth, Local, raw, parsed, reparsed, decVars, heap>>

Reparse ==
  /\ pc = "reparse"
  /\ reparsed' = parseTime(text, Local)
  /\ pc' = "end"
  /\ UNCHANGED <<MaxEntriesPerFeed, ts, succs, nd, watchVars>>
  /\ UNCHANGED netVars
  /\ UNCHANGED <<reddit, auth, Local, raw, parsed, text, decVars, heap>>

InitTime ==
  /\ MaxEntriesPerFeed = readConfigLimit(0)
  /\ ts = <<>>
  /\ succs = <<>>
  /\ nd = <<>>
  /\ pc = "parse"
  /\ watch = [ID |-> 1, Updated |-> 1]
  /\ watchReported = FALSE
  /\ watchExcluded = FALSE
  /\ watchStale = FALSE
  /\ NoSources
  /\ reddit = NoReddit
  /\ auth = <<>>
  /\ Local \in Locals
  /\ raw \in RawStrings
  /\ parsed = NoTime
  /\ text = NoRaw
  /\ reparsed = NoTime
  /\ DecodeIdle
  /\ HeapIdle

NextTime == ParseTime \/ Format \/ Reparse

SpecTime == InitTime /\ [][NextTime]_vars

\* ---- unmarshal on a document ---------------------------------------------
\* A panic in (*AtomFeed).Feed or (*RDFFeed).Feed ends the process.
Decode ==
  /\ pc = "decode"
  /\ decoded' = unmarshal(byt)
  /\ pc' = IF decoded'.panic THEN "panic" ELSE "end"
  /\ UNCHANGED <<MaxEntriesPerFeed, ts, succs, nd, watchVars>>
  /\ UNCHANGED netVars
  /\ UNCHANGED <<reddit, auth, timeVars, byt, heap>>

InitDecode ==
  /\ MaxEntriesPerFeed = readConfigLimit(0)
  /\ ts = <<>>
  /\ succs = <<>>
  /\ nd = <<>>
  /\ pc = "decode"
  /\ watch = [ID |-> 1, Updated |-> 1]
  /\ watchReported = FALSE
  /\ watchExcluded = FALSE
  /\ watchStale = FALSE
  /\ NoSources
  /\ reddit = NoReddit
  /\ auth = <<>>
  /\ TimeIdle
  /\ byt \in Documents
  /\ decoded = Result(NilFeed, "", FALSE)
  /\ HeapIdle

NextDecode == Decode

SpecDecode == InitDecode /\ [][NextDecode]_vars

\* ------------------------------------------- links and feed-level dates
\* The documents the links and the date of the feed are checked on: Atom and
\* RSS 2.0 documents with up to MaxLinks link elements, each with or without
\* a URL as its text, with no href, one that is no URI or a URL, and with
\* every rel and type; and documents of the three dialects with every kind
\* of feed-level date, with and without an item.
MaxLinks == 2

LinkElements(k) ==
  {LinkElement(t, h, r, ty) :
     t \in {"", "t" \o ToString(k)}, h \in {"", "junk", "h" \o ToString(k)},
     r \in {"", "self", "alternate"}, ty \in {"", "text/html"}}

LinkListsOf(n) ==
  IF n = 0 THEN {<<>>}
  ELSE {Append(ls, el) : ls \in LinkListsOf(n - 1), el \in LinkElements(n)}

HeadDocuments ==
  {Doc(root, FALSE, id, links, FALSE, <<>>) :
     root \in {"feed", "rss"}, id \in {"", "a"},
     links \in UNION {LinkListsOf(n) : n \in 0..MaxLinks}}
  \cup
  {Dated(Doc(root, FALSE, "a", <<TextLink("a")>>, TRUE, entries), d) :
     root \in Dialects, entries \in {<<>>, OneEntry}, d \in ItemDates}

InitHead ==
  /\ MaxEntriesPerFeed = readConfigLimit(0)
  /\ ts = <<>>
  /\ succs = <<>>
  /\ nd = <<>>
  /\ pc = "decode"
  /\ watch = [ID |-> 1, Updated |-> 1]
  /\ watchReported = FALSE
  /\ watchExcluded = FALSE
  /\ watchStale = FALSE
  /\ NoSources
  /\ reddit = NoReddit
  /\ auth = <<>>
  /\ TimeIdle
  /\ byt \in HeadDocuments
  /\ decoded = Result(NilFeed, "", FALSE)
  /\ HeapIdle

SpecHead == InitHead /\ [][NextDecode]_vars

\* ------------------------------------------------- entries behind pointers
\* pickNewData and resolveRelativeURLs on feeds whose Entries are pointers:
\* an entry of a feed is an address of heap here, and heap[a] is the
\* FeedEntry at a, with its Content: "rel" has a relative URL in it, "abs"
\* has none. The Link of a feed is a URL, or "%", which url.Parse refuses.
MaxCopyEntries == 2

CopyEntryListsOf(n) ==
  IF n = 0 THEN {<<>>}
  ELSE {Append(es, [ID |-> n, Updated |-> u, Content |-> c]) :
          es \in CopyEntryListsOf(n - 1), u \in {2, 3}, c \in {"rel", "abs"}}

CopyFeeds(id) ==
  {[ID |-> id, Link |-> l, Updated |-> ZeroTime, Entries |-> es] :
     l \in {"base", "%"},
     es \in UNION {CopyEntryListsOf(n) : n \in 0..MaxCopyEntries}}

\* What downloadFeeds returned: one feed, or two.
CopyFeedLists ==
  {<<f>> : f \in CopyFeeds("a")}
    \cup {<<f, g>> : f \in CopyFeeds("a"), g \in CopyFeeds("b")}

\* The number of entries of the feeds before place k.
Offset(fs, k) == IF k = 1 THEN 0 ELSE Offset(fs, k - 1) + Len(fs[k - 1].Entries)

\* The entries of the feeds from place k on, one after the other.
EntriesFrom(fs, k) ==
  IF k > Len(fs) THEN <<>> ELSE fs[k].Entries \o EntriesFrom(fs, k + 1)

\* The feeds with the addresses of their entries for Entries, when the
\* entries are stored one after the other from address base + 1 on.
Pointers(fs, base) ==
  [k \in 1..Len(fs) |->
     [fs[k] EXCEPT !.Entries = [j \in 1..Len(fs[k].Entries) |-> base + Offset(fs, k) + j]]]

\* The feeds with the FeedEntry values at their addresses for Entries, each
\* with the address it was read at.
Load(h, fs) ==
  [k \in 1..Len(fs) |->
     [fs[k] EXCEPT !.Entries =
        [j \in 1..Len(fs[k].Entries) |->
           [ID |-> h[fs[k].Entries[j]].ID,
            Updated |-> h[fs[k].Entries[j]].Updated,
            Content |-> h[fs[k].Entries[j]].Content,
            at |-> fs[k].Entries[j]]]]]

\* (e *FeedEntry) Copy(): the value of the new FeedEntry.
Copy(e) == [ID |-> e.ID, Updated |-> e.Updated, Content |-> e.Content]

\* (mutant) the result holds the pointers of the input, nothing is copied
Originals(h, picked) ==
  [heap |-> h,
   nd |-> [k \in 1..Len(picked) |->
             [picked[k] EXCEPT !.Entries =
                [j \in 1..Len(picked[k].Entries) |-> picked[k].Entries[j].at]]]]

\* The copies pickNewData made of the entries it selected: the heap with the
\* new FeedEntry values, and the result with their addresses. (A copy that
\* is not selected is referenced by nothing when pickNewData returns.)
Copies(h, picked) ==
  [heap |-> h \o [a \in 1..Len(EntriesFrom(picked, 1)) |-> Copy(EntriesFrom(picked, 1)[a])],
   nd |-> Pointers(picked, Len(h))]

\* absolutifyHTML on a Content.
absolutifyHTML(c) == IF c = "rel" THEN "abs" ELSE c

\* url.Parse(f.Link) has no error.
ParsesAsURL(l) == l # "%"

\* resolveRelativeURLs(fs): the heap after it has assigned e.Content through
\* the pointers of the feeds whose Link parses.
resolveRelativeURLs(h, fs) ==
  [a \in 1..Len(h) |->
     IF \E k \in 1..Len(fs) :
          /\ ParsesAsURL(fs[k].Link)
          /\ \E j \in 1..Len(fs[k].Entries) : fs[k].Entries[j] = a
     THEN [h[a] EXCEPT !.Content = absolutifyHTML(@)]
     ELSE h[a]]

\* feed: nd = pickNewData(succs, cfg.MaxEntriesPerFeed, ts), and the return
\* with nothing to report.
PickCopy ==
  /\ pc = "pick"
  /\ \E picked \in pickNewData(Load(heap, succs), MaxEntriesPerFeed, ts) :
       /\ heap' = Copies(heap, picked).heap
       /\ nd' = Copies(heap, picked).nd
  /\ pc' = IF Len(nd') = 0 THEN "done" ELSE "resolve"
  /\ UNCHANGED <<MaxEntriesPerFeed, ts, succs, watchVars>>
  /\ UNCHANGED netVars
  /\ UNCHANGED <<reddit, auth, timeVars, decVars>>

\* feed: resolveRelativeURLs(nd), with cfg.ReplaceRelativeURLs set.
Resolve ==
  /\ pc = "resolve"
  /\ heap' = resolveRelativeURLs(heap, nd)
  /\ pc' = "email"
  /\ UNCHANGED <<MaxEntriesPerFeed, ts, succs, nd, watchVars>>
  /\ UNCHANGED netVars
  /\ UNCHANGED <<reddit, auth, timeVars, decVars>>

\* feed: cfg.ReplaceRelativeURLs is not set.
SkipResolve ==
  /\ pc = "resolve"
  /\ pc' = "email"
  /\ UNCHANGED <<MaxEntriesPerFeed, ts, succs, nd, watchVars>>
  /\ UNCHANGED netVars
  /\ UNCHANGED extVars

InitCopy ==
  /\ MaxEntriesPerFeed \in {readConfigLimit(m) : m \in {0, 1}}
  /\ ts \in StoredWatermarks
  /\ \E fs \in CopyFeedLists :
       /\ heap = EntriesFrom(fs, 1)
       /\ succs = Pointers(fs, 0)
  /\ nd = <<>>
  /\ pc = "pick"
  /\ watch = [ID |-> 1, Updated |-> 1]
  /\ watchReported = FALSE
  /\ watchExcluded = FALSE
  /\ watchStale = FALSE
  /\ NoSources
  /\ reddit = NoReddit
  /\ auth = <<>>
  /\ TimeIdle
  /\ DecodeIdle

NextCopy == PickCopy \/ Resolve \/ SkipResolve

SpecCopy == InitCopy /\ [][NextCopy]_vars

\* ---- main: readConfig, then feed --------------------------------------
\* readConfig asks for the bearer token when cfg.Reddit is valid, and returns
\* the error of the request together with the configuration; failOnErr in
\* main ends the process on that error.
ReadConfig ==
  /\ pc = "config"
  /\ IF ~reddit.valid
       THEN /\ pc' = "download"
            /\ UNCHANGED reddit
       ELSE \E r \in TokenReplies :
              /\ reddit' = [reddit EXCEPT !.bearerToken = IF r.err THEN "" ELSE r.tok]
              /\ pc' = IF r.err THEN "fatal" ELSE "download"
  /\ UNCHANGED <<MaxEntriesPerFeed, ts, succs, nd, watchVars>>
  /\ UNCHANGED netVars
  /\ UNCHANGED <<auth, timeVars, decVars, heap>>

InitReddit ==
  /\ MaxEntriesPerFeed = readConfigLimit(0)
  /\ tsFile \in StoredWatermarks
  /\ ts = tsFile
  /\ succs = <<>>
  /\ nd = <<>>
  /\ pc = "config"
  /\ watch = [ID |-> 1, Updated |-> 1]
  /\ watchReported = FALSE
  /\ watchExcluded = FALSE
  /\ watchStale = FALSE
  /\ cs \in RedditConfigLists
  /\ next = 1
  /\ started = 0
  /\ disabled = 0
  /\ go = [i \in 1..Len(cs) |-> "idle"]
  /\ out = [i \in 1..Len(cs) |-> NilFeed]
  /\ body = [i \in 1..Len(cs) |-> NoReply]
  /\ fails = <<>>
  /\ succFrom = <<>>
  /\ failFrom = <<>>
  /\ emailed = FALSE
  /\ crash = NoCrash
  /\ reddit \in RedditConfigs
  /\ auth = [i \in 1..Len(cs) |-> FALSE]
  /\ TimeIdle
  /\ DecodeIdle
  /\ HeapIdle

NextReddit == ReadConfig \/ Next

SpecReddit == InitReddit /\ [][NextReddit]_vars

\* ================================================================= claims
Reported(fs, e) == e \in EntriesOf(fs, "a")

\* C1: no entry is reported twice across runs: with limit >= 1, an entry that
\* an earlier run returned (same ID, same Updated) is not in the result of
\* pickNewData of any later run, each run starting from the watermark map the
\* previous run's updateTimestamps left.
C1_NoEntryReportedTwice ==
  (pc = "update" /\ MaxEntriesPerFeed >= 1 /\ watchReported) => ~Reported(nd, watch)

\* C1 witness: a later run reports something while the entry reported earlier
\* is still in the feed.
C1_Witness ==
  /\ pc = "update" /\ MaxEntriesPerFeed >= 1 /\ watchReported
  /\ Reported(succs, watch) /\ nd # <<>>

\* C2 as stated: updateTimestamps does not advance the watermark past an
\* entry that was newer than the watermark and that the limit left out.
C2_Original ==
  (pc = "end" /\ MaxEntriesPerFeed >= 1 /\ watchExcluded)
     => ~("a" \in DOMAIN ts /\ ts["a"] > watch.Updated)

\* C2 amended: entries the limit leaves out are skipped for good: after
\* updateTimestamps the watermark is at or after every entry the limit left
\* out, and no later pickNewData selects such an entry.
C2_ExcludedNeverSelected ==
  /\ watchExcluded => ("a" \in DOMAIN ts /\ ts["a"] >= watch.Updated)
  /\ (pc = "update" /\ watchExcluded) => ~Reported(nd, watch)

\* C2 witness: a later run reports newer entries while the entry the limit
\* left out earlier is still in the feed.
C2_Witness ==
  /\ pc = "update" /\ MaxEntriesPerFeed >= 1 /\ watchExcluded /\ ~watchStale
  /\ Reported(succs, watch) /\ nd # <<>>

\* C3 as stated: with limit >= 1, an entry that is in the decoded feed and
\* that no earlier run reported is selected in this run or a later one (or
\* has left the feed by a later run).
C3_Original ==
  [](( /\ pc = "pick" /\ MaxEntriesPerFeed >= 1
       /\ Reported(succs, watch) /\ ~watchReported )
      => <>( \/ watchReported
             \/ (pc = "pick" /\ ~Reported(succs, watch)) ))

\* C3 amended: pickNewData selects only entries strictly after the feed's
\* watermark (every entry when the feed has none); an entry that a run passed
\* over, because its Updated was not after the watermark or because the limit
\* cut it, is selected by no later run.
C3_PassedOverNeverSelected ==
  /\ pc = "update" => \A e \in EntriesOf(nd, "a") : IsNew(ts, "a", e)
  /\ (pc = "update" /\ (watchStale \/ watchExcluded)) => ~Reported(nd, watch)

\* C3 witness: an entry that was never reported and was not after the
\* watermark in an earlier run is in the feed again while the run reports
\* other entries.
C3_Witness ==
  /\ pc = "update" /\ watchStale /\ ~watchReported /\ ~watchExcluded
  /\ Reported(succs, watch) /\ nd # <<>>

\* ---- one selection: C4 to C7 -------------------------------------------
IDsOf(fs) == {fs[i].ID : i \in 1..Len(fs)}

MaxUpdated(S) == CHOOSE m \in {e.Updated : e \in S} : \A e \in S : e.Updated <= m

Min(a, b) == IF a <= b THEN a ELSE b

\* The places of the entries of f that are newer than its watermark.
Candidates(f, t) == {j \in 1..Len(f.Entries) : IsNew(t, f.ID, f.Entries[j])}

\* The feeds of fs (by place) that have an entry newer than their watermark.
NewFeeds(fs, t) ==
  LET HasNew(i) == Candidates(fs[i], t) # {}
  IN  SelectSeq([i \in 1..Len(fs) |-> i], HasNew)

\* C4 as stated: after updateTimestamps the watermark of every feed of the
\* result is the greatest Updated among the entries reported for it, and is
\* not the Updated of an entry of the feed that was not reported.
C4_Original ==
  (pc = "end" /\ MaxEntriesPerFeed >= 1) =>
    \A id \in IDsOf(nd) :
      /\ id \in DOMAIN ts
      /\ ts[id] = MaxUpdated(EntriesOf(nd, id))
      /\ \A e \in EntriesOf(succs, id) \ EntriesOf(nd, id) : e.Updated # ts[id]

\* C4 amended: after updateTimestamps the watermark of every feed ID of the
\* result is the greatest Updated among the entries reported under that ID in
\* this run; no entry of the feed is newer than it, and an entry that was not
\* reported can carry the same Updated (a tie with the newest reported one).
C4_WatermarkIsNewestReported ==
  pc = "end" =>
    \A id \in IDsOf(nd) :
      /\ id \in DOMAIN ts
      /\ ts[id] = MaxUpdated(EntriesOf(nd, id))
      /\ \A e \in EntriesOf(succs, id) : e.Updated <= ts[id]

\* C4 witness: the watermark was set from a result of two entries with
\* different Updated, and the feed holds an entry that was not reported.
C4_Witness ==
  /\ pc = "end"
  /\ \E id \in IDsOf(nd) :
       /\ EntriesOf(succs, id) \ EntriesOf(nd, id) # {}
       /\ \E e1, e2 \in EntriesOf(nd, id) : e1.Updated < e2.Updated
       /\ ts[id] = MaxUpdated(EntriesOf(nd, id))

\* C5 as stated: pickNewData returns at most limitPerFeed entries per feed,
\* for every limit that readConfig lets through.
C5_Original ==
  pc \in {"update", "end"} =>
    \A i \in 1..Len(nd) : Len(nd[i].Entries) <= MaxEntriesPerFeed

\* C6: the entries pickNewData returns for a feed are ascending by Updated.
C6_ResultAscending ==
  pc \in {"update", "end"} =>
    \A i \in 1..Len(nd) :
      \A j, k \in 1..Len(nd[i].Entries) :
        j < k => nd[i].Entries[j].Updated <= nd[i].Entries[k].Updated

\* C6 witness: a feed whose document lists a newer entry before an older one
\* has both returned, the older first.
C6_Witness ==
  /\ pc = "update"
  /\ \E i \in 1..Len(nd) :
       /\ Len(nd[i].Entries) >= 2
       /\ nd[i].Entries[1].Updated < nd[i].Entries[2].Updated
       /\ \E m \in 1..Len(succs) :
            /\ succs[m].ID = nd[i].ID
            /\ Len(succs[m].Entries) >= 2
            /\ succs[m].Entries[1].Updated > succs[m].Entries[2].Updated

\* What C7 says of the selection sel out of the candidates cand of one feed.
TopOf(sel, cand, n, limit) ==
  /\ n = Min(limit, Cardinality(cand))
  /\ Cardinality(sel) = n
  /\ sel \subseteq cand

\* C7 as stated: for limit >= 1 the result holds, for each feed with a
\* candidate, exactly the min(limit, k) candidates with the greatest Updated,
\* whatever the order of the input: every selected entry is newer than every
\* candidate left out.
C7_Original ==
  (pc = "update" /\ MaxEntriesPerFeed >= 1) =>
    LET idx == NewFeeds(succs, ts)
    IN  /\ Len(nd) = Len(idx)
        /\ \A m \in 1..Len(nd) :
             LET f    == succs[idx[m]]
                 cand == {f.Entries[j] : j \in Candidates(f, ts)}
                 sel  == {nd[m].Entries[j] : j \in 1..Len(nd[m].Entries)}
             IN  /\ nd[m].ID = f.ID
                 /\ TopOf(sel, cand, Len(nd[m].Entries), MaxEntriesPerFeed)
                 /\ \A x \in sel : \A u \in cand \ sel : x.Updated > u.Updated

\* C7 amended: for limit >= 1 the result holds, for each feed with a
\* candidate, min(limit, k) of its k candidates, none of them older than a
\* candidate left out, so the Updated values of the selection do not depend
\* on the order of the input; which of several candidates with the same
\* Updated at the cut is kept is not determined.
C7_SelectsNewest ==
  (pc = "update" /\ MaxEntriesPerFeed >= 1) =>
    LET idx == NewFeeds(succs, ts)
    IN  /\ Len(nd) = Len(idx)
        /\ \A m \in 1..Len(nd) :
             LET f    == succs[idx[m]]
                 cand == {f.Entries[j] : j \in Candidates(f, ts)}
                 sel  == {nd[m].Entries[j] : j \in 1..Len(nd[m].Entries)}
             IN  /\ nd[m].ID = f.ID
                 /\ TopOf(sel, cand, Len(nd[m].Entries), MaxEntriesPerFeed)
                 /\ \A x \in sel : \A u \in cand \ sel : x.Updated >= u.Updated

\* C7 witness: limit 1, a feed with a watermark and two entries after it, the
\* newer one second in the document; the result is that newer entry.
C7_Witness ==
  /\ pc = "update" /\ MaxEntriesPerFeed = 1
  /\ \E m \in 1..Len(succs) :
       /\ succs[m].ID \in DOMAIN ts
       /\ Len(succs[m].Entries) >= 2
       /\ ts[succs[m].ID] < succs[m].Entries[1].Updated
       /\ succs[m].Entries[1].Updated < succs[m].Entries[2].Updated
       /\ \E i \in 1..Len(nd) : nd[i] = [succs[m] EXCEPT !.Entries = <<succs[m].Entries[2]>>]

\* ---- the run over the sources: C8 to C10 --------------------------------
\* The goroutine of source i got its reply and downloadFeed returned.
Fetched(i) == go[i] \in {"sendSucc", "sendFail", "done"}

\* The places of the elements source i contributed to fails and to succs.
FailuresOf(i) == {k \in 1..Len(fails) : failFrom[k] = i}
SuccessesOf(i) == {k \in 1..Len(succs) : succFrom[k] = i}

\* Every feed of nd is made of a feed of succs that came from another source
\* than i.
NothingNewFrom(i) ==
  \A k \in 1..Len(nd) :
    \E m \in 1..Len(succs) :
      /\ succFrom[m] # i
      /\ ~IsNil(succs[m])
      /\ nd[k].ID = succs[m].ID
      /\ \A j \in 1..Len(nd[k].Entries) :
           \E l \in 1..Len(succs[m].Entries) : nd[k].Entries[j] = succs[m].Entries[l]

\* The response of source i is a document of one of the three dialects cut
\* off inside its root element.
Truncated(i) ==
  /\ ~body[i].err
  /\ body[i].doc.cut
  /\ body[i].doc.root \in Dialects

\* Source i has no failure, sent or waiting to be sent.
C8_NoFailure(i) == go[i] # "sendFail" /\ FailuresOf(i) = {}

\* The process did not panic on the value of source i.
C8_RunContinues(i) == crash.by # i

\* C8 as stated: a source whose response is a feed document truncated
\* mid-element, in any of the three dialects, adds no element to the
\* failures and no entry to the new entries, and the run goes on through
\* selection and notification.
C8_Original ==
  \A i \in 1..Len(cs) :
    (Fetched(i) /\ Truncated(i)) =>
       C8_NoFailure(i) /\ NothingNewFrom(i) /\ C8_RunContinues(i)

\* The response of source i is a whole document of dialect d without a link
\* element (for RDF: with a channel, without a link in it).
NoLink(i, d) ==
  /\ Fetched(i)
  /\ ~body[i].err
  /\ body[i].doc.root = d
  /\ ~body[i].doc.cut
  /\ Len(body[i].doc.links) = 0
  /\ d = "RDF" => body[i].doc.channel

\* Source i contributes exactly the failure x and nothing else.
OneFailure(i, x) ==
  /\ go[i] # "sendSucc"
  /\ SuccessesOf(i) = {}
  /\ go[i] = "sendFail" => (out[i] = x /\ FailuresOf(i) = {})
  /\ go[i] = "done" => (Cardinality(FailuresOf(i)) = 1 /\ \A k \in FailuresOf(i) : fails[k] = x)
  /\ NothingNewFrom(i)
  /\ crash.by # i

\* Source i contributes exactly the feed f and no failure.
OneSuccess(i, f) ==
  /\ go[i] # "sendFail"
  /\ FailuresOf(i) = {}
  /\ go[i] = "sendSucc" => (out[i] = f /\ SuccessesOf(i) = {})
  /\ go[i] = "done" => (Cardinality(SuccessesOf(i)) = 1 /\ \A k \in SuccessesOf(i) : succs[k] = f)
  /\ crash.by # i

MissingLink(i) == [Title |-> cs[i].Name, Link |-> cs[i].URL, Failure |-> "missing link"]

Returned == pc # "download" /\ crash.in # "downloadFeed"

\* The sources of cs that are not disabled.
Enabled(i) == i \in 1..Len(cs) /\ ~cs[i].Disabled

\* Every dispatched source has exactly one outcome in exactly one list.
OneOutcomeEach ==
  /\ started = Cardinality({i \in 1..Len(cs) : Enabled(i)})
  /\ Len(succs) + Len(fails) = started
  /\ \A i \in 1..Len(cs) :
       Cardinality(SuccessesOf(i)) + Cardinality(FailuresOf(i)) =
         IF Enabled(i) THEN 1 ELSE 0

\* C10 as stated: when every fetch ends, downloadFeeds returns, for every
\* number of enabled sources and every order of completion, and on return
\* len(succs) + len(fails) is the number of dispatched sources, each with
\* exactly one outcome in exactly one of the two lists.
C10_Original == <>Returned /\ [](Returned => OneOutcomeEach)

\* C10, what the collecting loop does give: downloadFeeds returns unless a
\* goroutine panics inside downloadFeed, and on return every dispatched
\* source has exactly one outcome.
C10_ReturnsUnlessPanic ==
  <>(Returned \/ crash.in = "downloadFeed") /\ [](Returned => OneOutcomeEach)

\* ---- C11 to C13: disabled sources, isolation, no crash -----------------
\* C11: a disabled source is never fetched (its goroutine is never started
\* and get is never called for it) and has no element in succs or fails;
\* downloadFeeds counts it, and returns when the sources that are not
\* disabled have reported, one outcome each.
C11_DisabledNeverFetched ==
  /\ \A i \in 1..Len(cs) :
       cs[i].Disabled =>
         /\ go[i] = "idle"
         /\ body[i] = NoReply
         /\ SuccessesOf(i) = {}
         /\ FailuresOf(i) = {}
  /\ disabled = Cardinality({i \in 1..(next - 1) : cs[i].Disabled})
  /\ started = Cardinality({i \in 1..(next - 1) : ~cs[i].Disabled})
  /\ Returned =>
       /\ Len(succs) + Len(fails) = Cardinality({i \in 1..Len(cs) : Enabled(i)})
       /\ \A i \in 1..Len(cs) : Enabled(i) => go[i] = "done"

\* C11 witness: downloadFeeds has returned with the outcome of an enabled
\* source while another source is disabled.
C11_Witness ==
  /\ Returned
  /\ \E i, j \in 1..Len(cs) :
       /\ cs[i].Disabled
       /\ ~cs[j].Disabled
       /\ go[j] = "done"

\* The goroutine of source i has its outcome and waits at its send.
Waiting(i) == i \in 1..Len(cs) /\ go[i] \in {"sendSucc", "sendFail"}

\* The outcome of source i is in succs or fails.
Collected(i) == i \in 1..Len(cs) /\ go[i] = "done"

\* What downloadFeeds records for source i is what downloadFeed made of the
\* reply of source i alone: its feed in succs, or its failure in fails.
OwnOutcome(i) ==
  LET res == downloadFeed(body[i])
  IN  IF res.err # ""
        THEN /\ SuccessesOf(i) = {}
             /\ \A k \in FailuresOf(i) :
                  fails[k] = [Title |-> cs[i].Name, Link |-> cs[i].URL, Failure |-> res.err]
        ELSE /\ FailuresOf(i) = {}
             /\ \A k \in SuccessesOf(i) : succs[k] = res.feed

\* C12 as stated: the outcome recorded for a source depends only on its own
\* fetch and decode, and no other source, failing, timing out or slow, keeps
\* the outcome of a source from being collected.
C12_Original ==
  /\ [](\A i \in 1..Len(cs) : Collected(i) => OwnOutcome(i))
  /\ \A i \in 1..MaxSources : [](Waiting(i) => <>Collected(i))

\* C12, what does hold: the recorded outcome of a source is its own, and an
\* outcome that waits is collected unless a goroutine panics.
C12_CollectedUnlessPanic ==
  /\ [](\A i \in 1..Len(cs) : Collected(i) => OwnOutcome(i))
  /\ \A i \in 1..MaxSources :
       [](Waiting(i) => <>(Collected(i) \/ crash.in = "downloadFeed"))

\* C13 as stated: whatever the sources answer, the process does not panic.
C13_Original == pc # "panic" /\ crash = NoCrash

\* ---- C14 to C20: decoding, identity, Reddit, status, parseTime -----------
Reparsed == pc = "end" /\ parsed.ok /\ text # NoRaw

\* C20 as stated: for every string parseTime accepts, parsing the instant's
\* RFC 3339 text succeeds and yields the same instant.
C20_Original == Reparsed => reparsed.ok /\ SameInstant(reparsed, parsed)

\* C20: for every string parseTime accepts, parsing the instant's RFC 3339
\* text succeeds and yields the instant cut to whole seconds: the same
\* instant when the string has no fractional seconds.
C20_RoundTripToSeconds ==
  Reparsed =>
    /\ reparsed.ok
    /\ reparsed.sec = parsed.sec
    /\ reparsed.frac = 0
    /\ parsed.frac = 0 => SameInstant(reparsed, parsed)

\* A string with a zone name the machine knows, a day written with one digit
\* and fractional seconds has gone through the round trip.
C20_Witness ==
  /\ Reparsed
  /\ raw.zone = "CET" /\ Local = "Europe/Berlin" /\ raw.month = "Mar"
  /\ ~raw.day2 /\ raw.pad
  /\ parsed.off = 1 /\ parsed.frac # 0
  /\ text.zone = "colon"

\* unmarshal has returned for the document byt.
Decoded == pc = "end" /\ decoded = unmarshal(byt)

\* A whole document of a dialect with what the conversion of that dialect
\* needs apart from dates: a link (RSS 2.0), a channel (RDF), and no media
\* group without content (Atom).
Convertible(doc) ==
  /\ doc.root \in Dialects
  /\ ~doc.cut
  /\ doc.root = "rss" => doc.links # NoLinks
  /\ doc.root = "RDF" => doc.channel
  /\ doc.root = "feed" => \A k \in 1..Len(doc.entries) : doc.entries[k].media = "none"

Items(doc) == 1..Len(doc.entries)

NoDateElement(doc) == {k \in Items(doc) : doc.entries[k].date = NoRaw}

EmptyDateElement(doc) ==
  {k \in Items(doc) \ NoDateElement(doc) : doc.entries[k].date.form = "empty"}

ParseableDate(doc) ==
  {k \in Items(doc) \ NoDateElement(doc) : parseTime(doc.entries[k].date, Local).ok}

Succeeded == decoded.err = "" /\ ~IsNil(decoded.feed)

Failed == decoded.err # "" /\ IsNil(decoded.feed)

AllAttemptsFailed(doc) ==
  /\ \A d \in Dialects : DecodeErr(doc, d) # ""
  /\ DecodeErr(doc, "RDF") # "XML syntax error: unexpected EOF"

\* The error text e has the message m in it: "EOF" is the only message that
\* is a part of another one.
Carries(e, m) ==
  e = m \/ (m = "EOF" /\ e = "XML syntax error: unexpected EOF")

Order == <<"feed", "rss", "RDF">>

\* The first dialect in the order whose decoder accepts the document (0 when
\* none does).
FirstDecoding(doc) ==
  IF \E k \in 1..3 : DecodeErr(doc, Order[k]) = ""
  THEN CHOOSE k \in 1..3 :
         /\ DecodeErr(doc, Order[k]) = ""
         /\ \A j \in 1..(k - 1) : DecodeErr(doc, Order[j]) # ""
  ELSE 0

ConversionOf(k, doc) ==
  CASE k = 1 -> AtomFeedFeed(doc)
    [] k = 2 -> RSSFeedFeed(doc)
    [] k = 3 -> RDFFeedFeed(doc)

\* The dialects are tried in the order Atom, RSS 2.0, RDF, a later one only
\* when every earlier one failed, and the result is that of the first one
\* that decodes.
FirstDecodingWins ==
  /\ \E n \in 1..3 : Attempts(byt) = SubSeq(Order, 1, n)
  /\ \A k \in 1..Len(Attempts(byt)) :
       \A j \in 1..(k - 1) : DecodeErr(byt, Order[j]) # ""
  /\ FirstDecoding(byt) # 0 =>
       /\ Len(Attempts(byt)) = FirstDecoding(byt)
       /\ decoded = ConversionOf(FirstDecoding(byt), byt)

C17_Original ==
  /\ \A k \in 1..Len(succs) : ~IsNil(succs[k]) => succs[k].ID # ""
  /\ "" \notin DOMAIN ts
  /\ "" \notin DOMAIN tsFile

\* main ended in failOnErr after readConfig, before any source was started.
AbortedInConfig == pc = "fatal" /\ next = 1

\* C18 as stated: a token that is not configured or cannot be obtained aborts
\* nothing, every source is then fetched without the header, and the header
\* goes out only with a token held and a URL matching the Reddit pattern.
C18_Original ==
  /\ ~AbortedInConfig
  /\ \A i \in 1..Len(cs) :
       auth[i] => reddit.bearerToken # "" /\ MatchesReddit(cs[i].URL)
  /\ reddit.bearerToken = "" => \A i \in 1..Len(cs) : ~auth[i]

\* The response source i got has a status outside 200..299.
ErrorStatus(i) ==
  /\ i \in 1..Len(cs)
  /\ Fetched(i)
  /\ ~body[i].err
  /\ body[i].status \notin 200..299

\* C19 as stated: a source whose response has a non-2xx status ends as one
\* element of fails and none of succs, whatever the body.
C19_Original ==
  \A i \in 1..Len(cs) :
    ErrorStatus(i) /\ go[i] = "done" =>
      Cardinality(FailuresOf(i)) = 1 /\ SuccessesOf(i) = {}

\* ---- C21 to C30 ----------------------------------------------------------
\* The least element of a set of places.
First(S) == CHOOSE k \in S : \A j \in S : k <= j

\* The places of the links of the document whose decoded Rel is not "self".
NotSelf(doc) == {k \in 1..Len(doc.links) : Links(doc)[k].Rel # "self"}

\* unmarshal has returned a feed for a document of dialect d.
DecodedAs(d) == Decoded /\ Succeeded /\ byt.root = d

SelfLinks(doc) == {k \in 1..Len(doc.links) : doc.links[k].rel = "self"}

HumanLinks(doc) ==
  {k \in 1..Len(doc.links) :
     doc.links[k].rel = "alternate" \/ doc.links[k].type = "text/html"}

\* C22 as stated: the ID of an RSS 2.0 feed is the href of a rel=self link
\* when the document has one, its Link the href of a rel=alternate or
\* type=text/html link when it has one, and each is the href of the first
\* link when the document has no link of the kind.
C22_Original ==
  DecodedAs("rss") =>
    /\ SelfLinks(byt) # {} =>
         \E k \in SelfLinks(byt) : decoded.feed.ID = Links(byt)[k].HRef
    /\ SelfLinks(byt) = {} => decoded.feed.ID = Links(byt)[1].HRef
    /\ HumanLinks(byt) # {} =>
         \E k \in HumanLinks(byt) : decoded.feed.Link = Links(byt)[k].HRef
    /\ HumanLinks(byt) = {} => decoded.feed.Link = Links(byt)[1].HRef

\* C23 as stated: the Rel and the Type of every link unmarshal decoded are
\* the rel and the type attribute of its element, with the URL taken from the
\* text and with the URL taken from href.
C23_Original ==
  Decoded /\ byt.root \in {"feed", "rss"} /\ DecodeErr(byt, byt.root) = "" =>
    \A k \in 1..Len(byt.links) :
      /\ Links(byt)[k].Rel = byt.links[k].rel
      /\ Links(byt)[k].Type = byt.links[k].type

\* The date of the feed is there and parseTime has an error for it.
BadFeedDate(doc) == doc.date # NoRaw /\ ~parseTime(doc.date, Local).ok

\* The document has what the conversion of its dialect needs, and links that
\* decode.
HeadDecodes(doc) == Convertible(doc) /\ (doc.root # "RDF" => LinksErr(doc) = "")

\* C24 as stated: with a feed-level date that is no date unmarshal returns
\* the feed, with the zero instant as Updated and with its entries.
C24_Original ==
  Decoded /\ HeadDecodes(byt) /\ BadFeedDate(byt) =>
    /\ Succeeded
    /\ decoded.feed.Updated = ZeroTime
    /\ Len(decoded.feed.Entries) = Len(byt.entries)

\* C24: with a feed-level date that is no date unmarshal returns no feed and
\* an error: that of the lastBuildDate for RSS 2.0, that of the RDF attempt
\* for Atom and RDF. Updated is the zero instant, in a feed with its entries,
\* without the date element and with an empty lastBuildDate only; a date that
\* parses is the Updated of the feed.
C24_BadFeedDateFails ==
  Decoded /\ HeadDecodes(byt) =>
    IF byt.date = NoRaw \/ (byt.root = "rss" /\ byt.date.form = "empty")
    THEN /\ Succeeded
         /\ decoded.feed.Updated = ZeroTime
         /\ Len(decoded.feed.Entries) = Len(byt.entries)
    ELSE IF BadFeedDate(byt)
    THEN /\ Failed
         /\ decoded.err = CASE byt.root = "rss" -> "lastBuildDate parse error"
                            [] byt.root = "feed" -> "expected element type <RDF> but have <feed>"
                            [] byt.root = "RDF" -> "failed to parse time string"
    ELSE /\ Succeeded
         /\ decoded.feed.Updated = parseTime(byt.date, Local).sec
         /\ decoded.feed.Updated # ZeroTime

\* An Atom document with an item and an updated element that is no date was
\* refused.
C24_Witness ==
  /\ Decoded /\ HeadDecodes(byt)
  /\ byt.root = "feed"
  /\ byt.date = JunkDate
  /\ byt.entries = OneEntry
  /\ Failed

\* C25: every feed in the result of pickNewData has at least one entry, so
\* updateTimestamps reads Entries[0] of lists with an element only; a feed
\* of the input with no entry, or with no new one, is not in the result.
C25_NoEmptyFeedSelected ==
  pc \in {"update", "end"} =>
    /\ \A k \in 1..Len(nd) : Len(nd[k].Entries) >= 1
    /\ pc = "update" =>
         \A k \in 1..Len(nd) :
           \E m \in 1..Len(succs) :
             /\ succs[m].ID = nd[k].ID
             /\ \E j \in 1..Len(succs[m].Entries) :
                  IsNew(ts, nd[k].ID, succs[m].Entries[j])

\* Of a feed without entries and a feed with a new entry the second alone was
\* selected, and updateTimestamps has run on the result.
C25_Witness ==
  /\ pc = "end"
  /\ Len(succs) = 2
  /\ Len(succs[1].Entries) = 0
  /\ Len(succs[2].Entries) >= 1
  /\ Len(nd) = 1
  /\ nd[1].ID = succs[2].ID

\* The map v has every key of the map u, with the same instant for every key
\* that is no ID of a selected feed, and no key besides those and the IDs of
\* the selected feeds.
OnlySelectedChanged(u, v) ==
  /\ \A id \in DOMAIN u :
       /\ id \in DOMAIN v
       /\ id \notin IDsOf(nd) => v[id] = u[id]
  /\ DOMAIN v \subseteq DOMAIN u \cup IDsOf(nd)

\* C26: a step of the run changes the watermark map, and the timestamp file,
\* only at the IDs of the selected feeds, and removes no key.
C26_OnlySelectedKeysChange ==
  [][OnlySelectedChanged(ts, ts') /\ OnlySelectedChanged(tsFile, tsFile')]_vars

\* After updateTimestamps the stored key "a" has its instant of before the
\* run, in a run with a failed source and a disabled one, while the feed "b"
\* of another source got a watermark.
C26_Witness ==
  /\ pc = "write"
  /\ "a" \in DOMAIN tsFile /\ ts["a"] = tsFile["a"]
  /\ "b" \in DOMAIN ts /\ "b" \notin DOMAIN tsFile
  /\ IDsOf(nd) = {"b"}
  /\ Len(fails) + disabled >= 1

\* The watermark map after updateTimestamps has walked the first k feeds of
\* the selected result.
WatermarksAfter(k) == updateTimestamps(ts, SubSeq(nd, 1, k))

\* No key of u is missing in v or has an earlier instant there.
NotBackwards(u, v) == \A id \in DOMAIN u : id \in DOMAIN v /\ v[id] >= u[id]

\* C27: a watermark never moves backwards: not from one selected feed to the
\* next while updateTimestamps walks the result (two of them may have the
\* same ID), and not from before the call to after it.
C27_NeverBackwards ==
  /\ [](pc = "update" =>
          \A k \in 0..(Len(nd) - 1) : NotBackwards(WatermarksAfter(k), WatermarksAfter(k + 1)))
  /\ [][NotBackwards(ts, ts')]_vars

\* Two sources gave feeds with the same ID and both had new entries, those
\* of the second older than those of the first; an entry of the input is
\* older than the watermark the run ends with.
C27_Witness ==
  /\ pc = "end"
  /\ Len(nd) = 2
  /\ nd[1].ID = nd[2].ID
  /\ \A j \in 1..Len(nd[2].Entries) : nd[2].Entries[j].Updated < ts[nd[1].ID]
  /\ \E j \in 1..Len(nd[1].Entries) : nd[1].Entries[j].Updated = ts[nd[1].ID]

\* The feeds downloadFeeds returned, with the values of their entries, in the
\* order of the Entries of each feed.
DownloadedFeeds == Load(heap, succs)

\* The addresses the feeds fs have for entries.
AddressesOf(fs) == UNION {{fs[k].Entries[j] : j \in 1..Len(fs[k].Entries)} : k \in 1..Len(fs)}

\* C28: pickNewData and resolveRelativeURLs leave the feeds that came from
\* the download, the values and the order of their entries, and the watermark
\* map as they were; no entry of the result is an entry of the input, and
\* every entry pickNewData returns has the ID, the instant and the Content of
\* an entry of the input feed with the same ID.
C28_InputsUnchanged ==
  /\ [][DownloadedFeeds' = DownloadedFeeds /\ ts' = ts]_vars
  /\ [](AddressesOf(nd) \cap AddressesOf(succs) = {})
  /\ [](pc = "resolve" =>
          \A k \in 1..Len(nd) : \A j \in 1..Len(nd[k].Entries) :
            \E m \in 1..Len(succs) : \E i \in 1..Len(succs[m].Entries) :
              /\ succs[m].ID = nd[k].ID
              /\ heap[succs[m].Entries[i]] = heap[nd[k].Entries[j]])

\* resolveRelativeURLs has rewritten the Content of a selected entry, and the
\* entry of the downloaded feed it was copied from has its relative URL
\* still.
C28_Witness ==
  /\ pc = "email"
  /\ \E k \in 1..Len(nd) : \E j \in 1..Len(nd[k].Entries) :
       /\ heap[nd[k].Entries[j]].Content = "abs"
       /\ \E m \in 1..Len(succs) : \E i \in 1..Len(succs[m].Entries) :
            /\ succs[m].ID = nd[k].ID
            /\ heap[succs[m].Entries[i]].ID = heap[nd[k].Entries[j]].ID
            /\ heap[succs[m].Entries[i]].Content = "rel"

\* C29: the timestamp file is written only after the email was sent, the map
\* in memory is the stored one until then, and a run that ends because the
\* email could not be built or sent leaves the file as it was: a run on the
\* file and the same feeds can select the same entries again.
C29_WriteAfterEmail ==
  /\ [](~emailed => ts = tsFile)
  /\ [](pc = "fatal" /\ ~emailed =>
          nd \in pickNewData(succs, MaxEntriesPerFeed, tsFile))
  /\ [][tsFile' # tsFile => emailed /\ pc = "write"]_vars

\* The email for a new entry could not be sent and the run has ended.
C29_Witness ==
  /\ pc = "fatal"
  /\ ~emailed
  /\ Len(nd) >= 1
  /\ updateTimestamps(ts, nd) # tsFile

\* A feed has a new entry or a source has failed.
SomethingToReport == Len(nd) > 0 \/ Len(fails) > 0

\* C30: no email is sent and the timestamp file is not written in a run with
\* nothing to report; feed goes on to the email exactly when there is
\* something to report, and a run that ends without an error has sent the
\* email exactly in that case.
C30_EmailIffSomethingToReport ==
  /\ [](emailed => SomethingToReport)
  /\ [](pc \in {"email", "update", "write"} => SomethingToReport)
  /\ [](pc = "done" => (emailed <=> SomethingToReport))
  /\ [][tsFile' # tsFile => SomethingToReport]_vars

\* A run over an enabled source ended with no new entry and no failure, and
\* without an email.
C30_Witness ==
  /\ pc = "done"
  /\ ~emailed
  /\ Len(succs) >= 1
  /\ \A k \in 1..Len(succs) : ~IsNil(succs[k]) /\ Len(succs[k].Entries) >= 1
  /\ ~SomethingToReport

====
